---- MODULE Spec2Model ----
(***************************************************************************)
(* Name-constraint policy engine of policy/x509/x509.go.                   *)
(*                                                                         *)
(* Strings are sequences of bytes (naturals 0..255), as Go strings are.    *)
(* The pure functions of the file are operators computed the way the code  *)
(* computes them; validateNames is a state machine that walks the four     *)
(* name buckets one name per step.                                         *)
(***************************************************************************)
EXTENDS Integers, Sequences, FiniteSets, TLC

VARIABLES pc, args, ret, e, sans, visited

vars == <<pc, args, ret, e, sans, visited>>

(***************************************************************************)
(* Bounds of the checked inputs.                                           *)
(***************************************************************************)
MaxDomainLabels == 2
MaxConstraintLabels == 2

(***************************************************************************)
(* Byte-string helpers (package strings / bytes of the Go library, as the  *)
(* file uses them).                                                        *)
(***************************************************************************)
Bytes == 0..255

\* strings.LastIndexByte, 1-based; 0 when the byte is absent (Go: -1).
LastIndexByte(s, c) ==
  IF \E i \in 1..Len(s) : s[i] = c
  THEN CHOOSE i \in 1..Len(s) : s[i] = c /\ \A j \in (i+1)..Len(s) : s[j] # c
  ELSE 0

\* strings.IndexByte, 1-based; 0 when the byte is absent.
IndexByte(s, c) ==
  IF \E i \in 1..Len(s) : s[i] = c
  THEN CHOOSE i \in 1..Len(s) : s[i] = c /\ \A j \in 1..(i-1) : s[j] # c
  ELSE 0

\* strings.Contains(s, sub) / bytes.Contains.
Contains(s, sub) ==
  \E i \in 1..(Len(s) - Len(sub) + 1) : SubSeq(s, i, i + Len(sub) - 1) = sub

HasPrefix(s, p) == Len(s) >= Len(p) /\ SubSeq(s, 1, Len(p)) = p

HasSuffix(s, p) == Len(s) >= Len(p) /\ SubSeq(s, Len(s) - Len(p) + 1, Len(s)) = p

\* s[k:] of Go with a 0-based k.
From(s, k) == SubSeq(s, k + 1, Len(s))

\* strings.EqualFold on two bytes below utf8.RuneSelf: equal, or the smaller
\* is an upper-case ASCII letter and the larger its lower-case form.
FoldEqByte(x, y) ==
  LET sr == IF x < y THEN x ELSE y
      tr == IF x < y THEN y ELSE x
  IN  \/ sr = tr
      \/ tr < 128 /\ 65 <= sr /\ sr <= 90 /\ tr = sr + 97 - 65

\* strings.EqualFold, on the ASCII strings the callers hand it (both sides
\* have passed domainToReverseLabels, which admits bytes 33..126 only).
EqualFold(s, t) ==
  /\ Len(s) = Len(t)
  /\ \A i \in 1..Len(s) : FoldEqByte(s[i], t[i])

(***************************************************************************)
(* Errors.  An error is a format with its formatted arguments; nil is Nil. *)
(* CertificateInvalidError{Reason, Detail} carries the Reason, and its     *)
(* Detail is the format with its arguments.                                *)
(***************************************************************************)
Nil == [Reason |-> "nil", format |-> "", fargs |-> <<>>]

Errorf(format, fargs) == [Reason |-> "", format |-> format, fargs |-> fargs]

CertificateInvalidError(format, fargs) ==
  [Reason |-> "CANotAuthorizedForThisName", format |-> format, fargs |-> fargs]

\* The %q verb on a string: the string in double quotes, '"' and '\' escaped
\* (the checked names hold printable ASCII only, which %q leaves alone).
RECURSIVE Escape(_)
Escape(s) ==
  IF s = <<>> THEN <<>>
  ELSE (IF Head(s) \in {34, 92} THEN <<92, Head(s)>> ELSE <<Head(s)>>)
         \o Escape(Tail(s))

Quote(s) == <<34>> \o Escape(s) \o <<34>>

(***************************************************************************)
(* domainToReverseLabels                                                   *)
(***************************************************************************)
RECURSIVE ReverseSplit(_)
ReverseSplit(domain) ==
  IF Len(domain) = 0 THEN <<>>
  ELSE LET i == LastIndexByte(domain, 46)
       IN  IF i = 0 THEN <<domain>>
           ELSE <<SubSeq(domain, i + 1, Len(domain))>>
                  \o ReverseSplit(SubSeq(domain, 1, i - 1))

domainToReverseLabels(domain) ==
  LET reverseLabels == ReverseSplit(domain)
  IN  IF Len(reverseLabels) > 0 /\ reverseLabels[1] = <<>>
      THEN [labels |-> <<>>, ok |-> FALSE]
      ELSE IF \E k \in 1..Len(reverseLabels) :
                 \/ reverseLabels[k] = <<>>
                 \/ \E j \in 1..Len(reverseLabels[k]) :
                       reverseLabels[k][j] < 33 \/ reverseLabels[k][j] > 126
           THEN [labels |-> <<>>, ok |-> FALSE]
           ELSE [labels |-> reverseLabels, ok |-> TRUE]

(***************************************************************************)
(* matchDomainConstraint.  A matcher returns [match, err].                 *)
(***************************************************************************)
MatchResult(m, err) == [match |-> m, err |-> err]

\* matchDomainConstraint without the strict-subdomain test of a leading '.'.
matchDomainConstraintNoSubdomainTest(domain, constraint) ==
  IF constraint = <<>> THEN MatchResult(TRUE, Nil)
  ELSE
    LET d == domainToReverseLabels(domain)
        stripped == IF constraint[1] = 46 THEN From(constraint, 1) ELSE constraint
        c == domainToReverseLabels(stripped)
    IN  IF ~d.ok
        THEN MatchResult(FALSE, Errorf("cannot parse domain %q", <<Quote(domain)>>))
        ELSE IF ~c.ok
        THEN MatchResult(FALSE, Errorf("cannot parse domain %q", <<Quote(stripped)>>))
        ELSE IF Len(d.labels) < Len(c.labels)
        THEN MatchResult(FALSE, Nil)
        ELSE IF \E i \in 1..Len(c.labels) : ~EqualFold(c.labels[i], d.labels[i])
        THEN MatchResult(FALSE, Nil)
        ELSE MatchResult(TRUE, Nil)

matchDomainConstraint(domain, constraint) ==
  IF constraint = <<>> THEN MatchResult(TRUE, Nil)
  ELSE
    LET d == domainToReverseLabels(domain)
        mustHaveSubdomains == constraint[1] = 46
        stripped == IF mustHaveSubdomains THEN From(constraint, 1) ELSE constraint
        c == domainToReverseLabels(stripped)
    IN  IF ~d.ok
        THEN MatchResult(FALSE, Errorf("cannot parse domain %q", <<Quote(domain)>>))
        ELSE IF ~c.ok
        THEN MatchResult(FALSE, Errorf("cannot parse domain %q", <<Quote(stripped)>>))
        ELSE IF \/ Len(d.labels) < Len(c.labels)
                \/ (mustHaveSubdomains /\ Len(d.labels) = Len(c.labels))
        THEN MatchResult(FALSE, Nil)
        ELSE IF \E i \in 1..Len(c.labels) : ~EqualFold(c.labels[i], d.labels[i])
        THEN MatchResult(FALSE, Nil)
        ELSE MatchResult(TRUE, Nil)

(***************************************************************************)
(* Inputs of the domain matcher: labels joined by dots.  The label set     *)
(* holds an empty label and a label with a byte outside 33..126, so        *)
(* malformed names ("a..b", ".a", "a.", "a. ") are among the inputs.       *)
(***************************************************************************)
LabelSet == { <<>>, <<97>>, <<65>>, <<98>>, <<97, 66>>, <<32>> }

RECURSIVE JoinDots(_)
JoinDots(ls) ==
  IF Len(ls) = 0 THEN <<>>
  ELSE IF Len(ls) = 1 THEN ls[1]
  ELSE ls[1] \o <<46>> \o JoinDots(Tail(ls))

LabelSeqs(n) == UNION { [1..k -> LabelSet] : k \in 1..n }

DomainInputs == { JoinDots(ls) : ls \in LabelSeqs(MaxDomainLabels) }

ConstraintInputs ==
  { pre \o JoinDots(ls) : pre \in { <<>>, <<46>> }, ls \in LabelSeqs(MaxConstraintLabels) }

NoEngine == "none"

InitDomain ==
  /\ pc = "call"
  /\ args \in { [domain |-> d, constraint |-> c] : d \in DomainInputs, c \in ConstraintInputs }
  /\ ret = MatchResult(FALSE, Nil)
  /\ e = NoEngine
  /\ sans = <<>>
  /\ visited = <<>>

CallMatchDomain ==
  /\ pc = "call"
  /\ ret' = matchDomainConstraint(args.domain, args.constraint)
  /\ pc' = "done"
  /\ UNCHANGED <<args, e, sans, visited>>

NextDomain == CallMatchDomain

SpecDomain == InitDomain /\ [][NextDomain]_vars

(***************************************************************************)
(* Reference reading of a domain, used by the claims only: the labels in   *)
(* textual order, split at every '.', and ASCII lower-casing.              *)
(***************************************************************************)
RECURSIVE SplitDots(_)
SplitDots(s) ==
  LET i == IndexByte(s, 46)
  IN  IF i = 0 THEN <<s>>
      ELSE <<SubSeq(s, 1, i - 1)>> \o SplitDots(SubSeq(s, i + 1, Len(s)))

Lower(s) == [i \in 1..Len(s) |-> IF 65 <= s[i] /\ s[i] <= 90 THEN s[i] + 32 ELSE s[i]]

ValidLabels(s) ==
  \A k \in 1..Len(SplitDots(s)) :
     /\ SplitDots(s)[k] # <<>>
     /\ \A j \in 1..Len(SplitDots(s)[k]) :
           SplitDots(s)[k][j] >= 33 /\ SplitDots(s)[k][j] <= 126

LeadingDot(c) == Len(c) > 0 /\ c[1] = 46

LabelPart(c) == IF LeadingDot(c) THEN Tail(c) ELSE c

\* The rightmost Len(cl) labels of d equal the labels of c, ignoring case.
TrailingLabelsEqual(d, c) ==
  LET dl == SplitDots(d)
      cl == SplitDots(LabelPart(c))
  IN  /\ Len(dl) >= Len(cl)
      /\ \A k \in 0..(Len(cl) - 1) :
            Lower(cl[Len(cl) - k]) = Lower(dl[Len(dl) - k])

RefDomainMatch(d, c) ==
  /\ TrailingLabelsEqual(d, c)
  /\ IF LeadingDot(c)
     THEN Len(SplitDots(d)) > Len(SplitDots(LabelPart(c)))
     ELSE Len(SplitDots(d)) >= Len(SplitDots(LabelPart(c)))

\* C5: for a valid relative domain d and a non-empty constraint c with a valid
\* label part, matchDomainConstraint returns no error, and returns true exactly
\* when c's labels equal d's trailing labels case-insensitively and d has at
\* least as many labels (strictly more when c has a leading '.').
C5_DomainMatchesReference ==
  (pc = "done" /\ ValidLabels(args.domain) /\ args.constraint # <<>>
     /\ ValidLabels(LabelPart(args.constraint)))
  => /\ ret.err = Nil
     /\ ret.match = RefDomainMatch(args.domain, args.constraint)

\* A leading-dot constraint met a candidate with the same labels and the same
\* number of labels, and the matcher answered no.
C5_Witness ==
  /\ pc = "done"
  /\ LeadingDot(args.constraint)
  /\ ValidLabels(args.domain)
  /\ ValidLabels(LabelPart(args.constraint))
  /\ Len(SplitDots(args.domain)) = 2
  /\ Lower(args.domain) = Lower(LabelPart(args.constraint))
  /\ args.domain # LabelPart(args.constraint)
  /\ ret = MatchResult(FALSE, Nil)

(***************************************************************************)
(* parseRFC2821Mailbox.  A scan returns [ok, local, rest]: the local part  *)
(* collected so far and the input left after it.                           *)
(***************************************************************************)
ZeroMailbox == [local |-> <<>>, domain |-> <<>>]

ScanFail == [ok |-> FALSE, local |-> <<>>, rest |-> <<>>]

\* The byte that may follow '\' in a quoted-pair.
QuotedPairText == {11, 12} \cup (1..9) \cup (14..127)

\* qtext without the space the code chooses to accept.
QTextNoSpace == {11, 12, 33, 127} \cup (1..8) \cup (14..31) \cup (35..91) \cup (93..126)

\* The unescaped bytes the quoted-string branch appends as qtext.
QText == {11, 12, 32, 33, 127} \cup (1..8) \cup (14..31) \cup (35..91) \cup (93..126)

\* The bytes the atom branch appends: atext and '.'.
AText ==
  (48..57) \cup (97..122) \cup (65..90)
    \cup {33, 35, 36, 37, 38, 39, 42, 43, 45, 47, 61, 63, 94, 95, 96, 123, 124, 125, 126, 46}

\* The QuotedString loop, entered after the opening '"' has been dropped.
RECURSIVE ScanQuoted(_, _)
ScanQuoted(in, local) ==
  IF in = <<>> THEN ScanFail
  ELSE LET c == Head(in)
           rest == Tail(in)
       IN  IF c = 34 THEN [ok |-> TRUE, local |-> local, rest |-> rest]
           ELSE IF c = 92
           THEN IF rest = <<>> THEN ScanFail
                ELSE IF Head(rest) \in QuotedPairText
                THEN ScanQuoted(Tail(rest), Append(local, Head(rest)))
                ELSE ScanFail
           ELSE IF c \in QText THEN ScanQuoted(rest, Append(local, c))
           ELSE ScanFail

\* The NextChar loop: a '\' drops itself and admits the byte after it.
RECURSIVE ScanAtom(_, _)
ScanAtom(in, local) ==
  IF in = <<>> THEN [ok |-> TRUE, local |-> local, rest |-> in]
  ELSE LET c == Head(in)
       IN  IF c = 92
           THEN IF Tail(in) = <<>> THEN ScanFail
                ELSE ScanAtom(Tail(Tail(in)), Append(local, Head(Tail(in))))
           ELSE IF c \in AText THEN ScanAtom(Tail(in), Append(local, c))
           ELSE [ok |-> TRUE, local |-> local, rest |-> in]

\* The checks the atom branch makes on the collected local part.
AtomLocalOk(local) ==
  /\ Len(local) # 0
  /\ local[1] # 46
  /\ local[Len(local)] # 46
  /\ ~Contains(local, <<46, 46>>)

parseRFC2821Mailbox(in) ==
  IF in = <<>> THEN [mailbox |-> ZeroMailbox, ok |-> FALSE]
  ELSE
    LET quoted == in[1] = 34
        scan == IF quoted THEN ScanQuoted(Tail(in), <<>>) ELSE ScanAtom(in, <<>>)
    IN  IF ~scan.ok THEN [mailbox |-> ZeroMailbox, ok |-> FALSE]
        ELSE IF ~quoted /\ ~AtomLocalOk(scan.local)
        THEN [mailbox |-> ZeroMailbox, ok |-> FALSE]
        ELSE IF scan.rest = <<>> \/ scan.rest[1] # 64
        THEN [mailbox |-> ZeroMailbox, ok |-> FALSE]
        ELSE IF ~domainToReverseLabels(Tail(scan.rest)).ok
        THEN [mailbox |-> ZeroMailbox, ok |-> FALSE]
        ELSE [mailbox |-> [local |-> scan.local, domain |-> Tail(scan.rest)],
              ok |-> TRUE]

(***************************************************************************)
(* Inputs of the mailbox parser: an opening '"', a body, and a tail that   *)
(* closes the quoted string (or not).  Bodies are every single byte, and   *)
(* the short strings over the bytes at the edges of the ranges.            *)
(***************************************************************************)
MaxQuotedLen == 2

EdgeBytes ==
  {0, 1, 8, 9, 10, 11, 12, 13, 14, 31, 32, 33, 34, 35, 91, 92, 93, 126, 127, 128, 255}

QuotedBodies ==
  UNION { [1..k -> EdgeBytes] : k \in 0..MaxQuotedLen } \cup { <<c>> : c \in Bytes }

\* nothing; '"@a'; '"@.' (a domain that does not parse); '"a' (no '@').
QuotedTails == { <<>>, <<34, 64, 97>>, <<34, 64, 46>>, <<34, 97>> }

MailboxInputs == { <<34>> \o b \o t : b \in QuotedBodies, t \in QuotedTails }

InitMailbox ==
  /\ pc = "call"
  /\ args \in { [in |-> s] : s \in MailboxInputs }
  /\ ret = [mailbox |-> ZeroMailbox, ok |-> FALSE]
  /\ e = NoEngine
  /\ sans = <<>>
  /\ visited = <<>>

CallParseMailbox ==
  /\ pc = "call"
  /\ ret' = parseRFC2821Mailbox(args.in)
  /\ pc' = "done"
  /\ UNCHANGED <<args, e, sans, visited>>

NextMailbox == CallParseMailbox

SpecMailbox == InitMailbox /\ [][NextMailbox]_vars

(***************************************************************************)
(* Reference reading of a quoted string, by position: a byte is escaped    *)
(* when an odd number of '\' stand immediately before it; the closing      *)
(* quote is the first unescaped '"' after the opening one.                 *)
(***************************************************************************)
BackslashRun(s, i) ==
  LET starts == { k \in 2..i : \A j \in k..(i-1) : s[j] = 92 }
  IN  i - (CHOOSE k \in starts : \A k2 \in starts : k <= k2)

EscapedAt(s, i) == BackslashRun(s, i) % 2 = 1

IsClosingQuote(s, i) ==
  /\ s[i] = 34 /\ ~EscapedAt(s, i)
  /\ \A j \in 2..(i-1) : ~(s[j] = 34 /\ ~EscapedAt(s, j))

\* The quoted input s parses when it has a closing quote, every unescaped
\* byte before it (other than a '\' starting a quoted-pair) is in qtext,
\* every escaped byte is quoted-pair text, and '@' and a domain follow.
RefQuotedParses(s, qtext) ==
  \E close \in 2..Len(s) :
     /\ IsClosingQuote(s, close)
     /\ \A i \in 2..(close-1) :
           IF EscapedAt(s, i) THEN s[i] \in QuotedPairText
           ELSE s[i] = 92 \/ s[i] \in qtext
     /\ close < Len(s) /\ s[close + 1] = 64
     /\ domainToReverseLabels(SubSeq(s, close + 2, Len(s))).ok

ClaimedQText == {11, 12, 32, 33, 127} \cup (1..8) \cup (35..91) \cup (93..126)

\* C9 as stated: a quoted-string input parses exactly when it is closed and
\* its unescaped bytes are in {11,12,32,33,127}, [1,8], [35,91] or [93,126].
C9_QTextAsClaimed ==
  (pc = "done" /\ args.in[1] = 34)
  => (ret.ok <=> RefQuotedParses(args.in, ClaimedQText))

\* C9 amended: the accepted unescaped bytes are those, and [14,31] as well.
C9_QTextWithControls ==
  (pc = "done" /\ args.in[1] = 34)
  => (ret.ok <=> RefQuotedParses(args.in, ClaimedQText \cup (14..31)))

\* A closed quoted string holding a space and a control byte of [14,31]
\* parsed, and kept both in the local part.
C9_Witness ==
  /\ pc = "done"
  /\ args.in = <<34, 32, 31, 34, 64, 97>>
  /\ ret.ok
  /\ ret.mailbox = [local |-> <<32, 31>>, domain |-> <<97>>]

(***************************************************************************)
(* matchEmailConstraint                                                    *)
(***************************************************************************)
\* matchEmailConstraint comparing the local parts ignoring case.
matchEmailConstraintFoldLocal(mailbox, constraint) ==
  IF Contains(constraint, <<64>>)
  THEN LET c == parseRFC2821Mailbox(constraint)
       IN  IF ~c.ok
           THEN MatchResult(FALSE, Errorf("cannot parse constraint %q", <<Quote(constraint)>>))
           ELSE MatchResult(/\ EqualFold(mailbox.local, c.mailbox.local)
                            /\ EqualFold(mailbox.domain, c.mailbox.domain),
                            Nil)
  ELSE matchDomainConstraint(mailbox.domain, constraint)

matchEmailConstraint(mailbox, constraint) ==
  IF Contains(constraint, <<64>>)
  THEN LET c == parseRFC2821Mailbox(constraint)
       IN  IF ~c.ok
           THEN MatchResult(FALSE, Errorf("cannot parse constraint %q", <<Quote(constraint)>>))
           ELSE MatchResult(/\ mailbox.local = c.mailbox.local
                            /\ EqualFold(mailbox.domain, c.mailbox.domain),
                            Nil)
  ELSE matchDomainConstraint(mailbox.domain, constraint)

(***************************************************************************)
(* Inputs of the email matcher: mailboxes are the parses of local@domain   *)
(* strings; constraints are domain constraints and local@domain strings,   *)
(* some of which do not parse ("@a", "a@a.", "a..b").                      *)
(***************************************************************************)
EmailLabelSet == { <<>>, <<97>>, <<65>> }

EmailDomains ==
  { JoinDots(ls) : ls \in UNION { [1..k -> EmailLabelSet] : k \in 1..MaxDomainLabels } }

\* a, A, b, "a" (quoted), a\@ (an escaped '@').
EmailLocals == { <<97>>, <<65>>, <<98>>, <<34, 97, 34>>, <<97, 92, 64>> }

EmailInputs == { l \o <<64>> \o d : l \in EmailLocals, d \in EmailDomains }

ParsedMailboxes ==
  { parseRFC2821Mailbox(s).mailbox : s \in { x \in EmailInputs : parseRFC2821Mailbox(x).ok } }

EmailConstraintInputs ==
  { pre \o d : pre \in { <<>>, <<46>> }, d \in EmailDomains }
    \cup { l \o <<64>> \o d : l \in EmailLocals \cup { <<>> }, d \in EmailDomains }

InitEmail ==
  /\ pc = "call"
  /\ args \in { [mailbox |-> m, constraint |-> c] :
                  m \in ParsedMailboxes, c \in EmailConstraintInputs }
  /\ ret = MatchResult(FALSE, Nil)
  /\ e = NoEngine
  /\ sans = <<>>
  /\ visited = <<>>

CallMatchEmail ==
  /\ pc = "call"
  /\ ret' = matchEmailConstraint(args.mailbox, args.constraint)
  /\ pc' = "done"
  /\ UNCHANGED <<args, e, sans, visited>>

NextEmail == CallMatchEmail

SpecEmail == InitEmail /\ [][NextEmail]_vars

HasAt(c) == \E i \in 1..Len(c) : c[i] = 64

\* C6: with an '@' in the constraint, the constraint is parsed as a mailbox:
\* an error when that fails, else a match exactly when the local parts are
\* the same bytes and the domains are equal ignoring ASCII case; with no '@'
\* the result is that of matchDomainConstraint on the mailbox's domain.
C6_EmailMatcher ==
  pc = "done" =>
    IF HasAt(args.constraint)
    THEN LET c == parseRFC2821Mailbox(args.constraint)
         IN  IF ~c.ok
             THEN ret.err # Nil /\ ~ret.match
             ELSE /\ ret.err = Nil
                  /\ ret.match <=>
                       /\ Len(args.mailbox.local) = Len(c.mailbox.local)
                       /\ \A i \in 1..Len(c.mailbox.local) :
                             args.mailbox.local[i] = c.mailbox.local[i]
                       /\ Lower(args.mailbox.domain) = Lower(c.mailbox.domain)
    ELSE ret = matchDomainConstraint(args.mailbox.domain, args.constraint)

\* An exact-mailbox constraint matched a mailbox whose domain differs from it
\* in case only.
C6_Witness ==
  /\ pc = "done"
  /\ HasAt(args.constraint)
  /\ ret = MatchResult(TRUE, Nil)
  /\ args.mailbox.domain # parseRFC2821Mailbox(args.constraint).mailbox.domain

(***************************************************************************)
(* The Go library calls of matchURIConstraint: net.SplitHostPort,          *)
(* net.ParseIP and the String method of url.URL.                           *)
(***************************************************************************)
IsDigit(c) == 48 <= c /\ c <= 57

IsHexDigit(c) == IsDigit(c) \/ (97 <= c /\ c <= 102) \/ (65 <= c /\ c <= 70)

HexValue(c) == IF IsDigit(c) THEN c - 48 ELSE IF c >= 97 THEN c - 97 + 10 ELSE c - 65 + 10

\* The length of the longest prefix of s made of bytes satisfying the test.
RECURSIVE DigitRun(_)
DigitRun(s) == IF s # <<>> /\ IsDigit(Head(s)) THEN 1 + DigitRun(Tail(s)) ELSE 0

RECURSIVE HexRun(_)
HexRun(s) == IF s # <<>> /\ IsHexDigit(Head(s)) THEN 1 + HexRun(Tail(s)) ELSE 0

RECURSIVE DecValue(_, _)
DecValue(s, n) == IF n = 0 THEN 0 ELSE DecValue(s, n - 1) * 10 + (s[n] - 48)

RECURSIVE HexVal(_, _)
HexVal(s, n) == IF n = 0 THEN 0 ELSE HexVal(s, n - 1) * 16 + HexValue(s[n])

\* parseIPv4: the four decimal fields of d.d.d.d, field i of 0..3 next.
RECURSIVE ParseIPv4Fields(_, _)
ParseIPv4Fields(s, i) ==
  IF i = 4 THEN Len(s) = 0
  ELSE IF Len(s) = 0 THEN FALSE
  ELSE IF i > 0 /\ s[1] # 46 THEN FALSE
  ELSE LET t == IF i > 0 THEN Tail(s) ELSE s
           c == DigitRun(t)
       IN  /\ c > 0
           /\ DecValue(t, c) <= 255
           /\ ~(c > 1 /\ t[1] = 48)
           /\ ParseIPv4Fields(From(t, c), i + 1)

parseIPv4(s) == ParseIPv4Fields(s, 0)

\* What parseIPv6 checks after its loop: the whole string was used, and the
\* ellipsis stands for at least one group when fewer than 16 bytes were read.
IPv6Finish(s, i, ellipsis) ==
  /\ Len(s) = 0
  /\ IF i < 16 THEN ellipsis ELSE ~ellipsis

\* The loop of parseIPv6: i bytes of the address are filled.
RECURSIVE ParseIPv6Loop(_, _, _)
ParseIPv6Loop(s, i, ellipsis) ==
  IF i >= 16 THEN IPv6Finish(s, i, ellipsis)
  ELSE
    LET c == HexRun(s)
    IN  IF c = 0 \/ HexVal(s, c) > 65535 THEN FALSE
        ELSE IF c < Len(s) /\ s[c + 1] = 46
        THEN /\ ~(~ellipsis /\ i # 12)
             /\ i + 4 <= 16
             /\ parseIPv4(s)
             /\ IPv6Finish(<<>>, i + 4, ellipsis)
        ELSE LET s1 == From(s, c)
             IN  IF Len(s1) = 0 THEN IPv6Finish(s1, i + 2, ellipsis)
                 ELSE IF s1[1] # 58 \/ Len(s1) = 1 THEN FALSE
                 ELSE LET s2 == Tail(s1)
                      IN  IF s2[1] = 58
                          THEN IF ellipsis THEN FALSE
                               ELSE IF Len(s2) = 1 THEN IPv6Finish(<<>>, i + 2, TRUE)
                               ELSE ParseIPv6Loop(Tail(s2), i + 2, TRUE)
                          ELSE ParseIPv6Loop(s2, i + 2, ellipsis)

parseIPv6(s) ==
  IF Len(s) >= 2 /\ s[1] = 58 /\ s[2] = 58
  THEN IF Len(s) = 2 THEN TRUE ELSE ParseIPv6Loop(From(s, 2), 0, TRUE)
  ELSE ParseIPv6Loop(s, 0, FALSE)

\* net.ParseIP(s) != nil: the first '.' or ':' of s picks the parser; a zone
\* ("%eth0") is no part of what either parser accepts.
ParseIP(s) ==
  LET marks == { k \in 1..Len(s) : s[k] \in {46, 58} }
  IN  IF marks = {} THEN FALSE
      ELSE LET first == CHOOSE k \in marks : \A k2 \in marks : k <= k2
           IN  IF s[first] = 46 THEN parseIPv4(s) ELSE parseIPv6(s)

\* net.SplitHostPort: [host, ok]; ok is FALSE where Go returns an AddrError.
SplitHostPort(hostport) ==
  LET i == LastIndexByte(hostport, 58)
      fail == [host |-> <<>>, ok |-> FALSE]
  IN  IF i = 0 THEN fail
      ELSE IF hostport[1] = 91
      THEN LET end == IndexByte(hostport, 93)
           IN  IF end = 0 THEN fail
               ELSE IF end + 1 # i THEN fail
               ELSE IF \/ IndexByte(From(hostport, 1), 91) # 0
                       \/ IndexByte(From(hostport, end), 93) # 0
               THEN fail
               ELSE [host |-> SubSeq(hostport, 2, end - 1), ok |-> TRUE]
      ELSE LET host == SubSeq(hostport, 1, i - 1)
           IN  IF IndexByte(host, 58) # 0 THEN fail
               ELSE IF IndexByte(hostport, 91) # 0 \/ IndexByte(hostport, 93) # 0
               THEN fail
               ELSE [host |-> host, ok |-> TRUE]

\* A parsed URI is its scheme, host and path.  String() writes "scheme:",
\* "//" when there is a host or a path, the host with '%' escaped, the path.
RECURSIVE EscapeHost(_)
EscapeHost(h) ==
  IF h = <<>> THEN <<>>
  ELSE (IF Head(h) = 37 THEN <<37, 50, 53>> ELSE <<Head(h)>>) \o EscapeHost(Tail(h))

URLString(uri) ==
  uri.Scheme \o <<58>>
    \o (IF uri.Host # <<>> \/ uri.Path # <<>> THEN <<47, 47>> ELSE <<>>)
    \o EscapeHost(uri.Host) \o uri.Path

(***************************************************************************)
(* matchURIConstraint                                                      *)
(***************************************************************************)
matchURIConstraint(uri, constraint) ==
  IF uri.Host = <<>>
  THEN MatchResult(FALSE,
         Errorf("URI with empty host (%q) cannot be matched against constraints",
                <<Quote(URLString(uri))>>))
  ELSE
    LET mustSplit == Contains(uri.Host, <<58>>) /\ ~HasSuffix(uri.Host, <<93>>)
        split == SplitHostPort(uri.Host)
        host == IF mustSplit THEN split.host ELSE uri.Host
    IN  IF mustSplit /\ ~split.ok
        THEN MatchResult(FALSE, Errorf("address %s: %s", <<uri.Host>>))
        ELSE IF (HasPrefix(host, <<91>>) /\ HasSuffix(host, <<93>>)) \/ ParseIP(host)
        THEN MatchResult(FALSE,
               Errorf("URI with IP (%q) cannot be matched against constraints",
                      <<Quote(URLString(uri))>>))
        ELSE matchDomainConstraint(host, constraint)

(***************************************************************************)
(* Inputs of the URI matcher: hosts are short strings over "1a.:%", bare   *)
(* or in brackets, with or without a port, and the IPv4 literal 1.1.1.1.   *)
(***************************************************************************)
MaxHostLen == 4

HostAlphabet == {49, 97, 46, 58, 37}

HostCores ==
  UNION { [1..k -> HostAlphabet] : k \in 0..MaxHostLen } \cup { <<49, 46, 49, 46, 49, 46, 49>> }

HostInputs ==
  { pre \o c \o post : pre \in { <<>>, <<91>> }, c \in HostCores,
                       post \in { <<>>, <<93>>, <<58, 49>>, <<93, 58, 49>> } }

\* https://host, or file:///a when the host is empty.
URI(host) ==
  IF host = <<>>
  THEN [Scheme |-> <<102, 105, 108, 101>>, Host |-> host, Path |-> <<47, 97>>]
  ELSE [Scheme |-> <<104, 116, 116, 112, 115>>, Host |-> host, Path |-> <<>>]

\* "", "a", ".a", "a.a", "1.1.1.1", "::%a".
URIConstraintInputs ==
  { <<>>, <<97>>, <<46, 97>>, <<97, 46, 97>>, <<49, 46, 49, 46, 49, 46, 49>>,
    <<58, 58, 37, 97>> }

InitURI ==
  /\ pc = "call"
  /\ args \in { [uri |-> URI(h), constraint |-> c] : h \in HostInputs, c \in URIConstraintInputs }
  /\ ret = MatchResult(FALSE, Nil)
  /\ e = NoEngine
  /\ sans = <<>>
  /\ visited = <<>>

CallMatchURI ==
  /\ pc = "call"
  /\ ret' = matchURIConstraint(args.uri, args.constraint)
  /\ pc' = "done"
  /\ UNCHANGED <<args, e, sans, visited>>

NextURI == CallMatchURI

SpecURI == InitURI /\ [][NextURI]_vars

(***************************************************************************)
(* Reference reading of a URI host (RFC 3986, RFC 6874), used by the       *)
(* claims only: host [":" port], the host an IP-literal in brackets (an    *)
(* IPv6 address, with an optional "%zone") or a name or IPv4 address.      *)
(***************************************************************************)
AllDigits(s) == \A k \in 1..Len(s) : IsDigit(s[k])

Bracketed(h) == Len(h) >= 2 /\ h[1] = 91 /\ h[Len(h)] = 93

\* The host with its optional ":port" removed.
HostWithoutPort(h) ==
  LET i == LastIndexByte(h, 58)
      before == SubSeq(h, 1, i - 1)
  IN  IF /\ i > 0
         /\ AllDigits(From(h, i))
         /\ (Bracketed(before) \/ IndexByte(before, 58) = 0)
      THEN before
      ELSE h

IsIPv6Address(a) == IndexByte(a, 58) # 0 /\ ParseIP(a)

\* "[" IPv6address [ "%" zone ] "]"
IsBracketedIPv6(h) ==
  /\ Bracketed(h)
  /\ LET body == SubSeq(h, 2, Len(h) - 1)
         z == IndexByte(body, 37)
     IN  IF z = 0 THEN IsIPv6Address(body)
         ELSE IsIPv6Address(SubSeq(body, 1, z - 1)) /\ z < Len(body)

HostIsIPLiteral(h) ==
  IsBracketedIPv6(HostWithoutPort(h)) \/ ParseIP(HostWithoutPort(h))

\* C7: whatever the constraint, matchURIConstraint returns an error and no
\* match when the URI host is empty, or when the host without its optional
\* port is a bracketed IPv6 literal or parses as an IPv4/IPv6 address.
C7_URIRejectsIPHosts ==
  (pc = "done" /\ (args.uri.Host = <<>> \/ HostIsIPLiteral(args.uri.Host)))
  => (ret.err # Nil /\ ~ret.match)

(***************************************************************************)
(* matchIPConstraint.  A net.IP is its 4 or 16 bytes, a net.IPNet an       *)
(* address and a mask of the same length (what net.ParseCIDR builds).      *)
(***************************************************************************)
RECURSIVE BitAnd(_, _)
BitAnd(x, y) ==
  IF x = 0 \/ y = 0 THEN 0
  ELSE 2 * BitAnd(x \div 2, y \div 2) + (IF x % 2 = 1 /\ y % 2 = 1 THEN 1 ELSE 0)

\* The ::ffff:0:0/96 prefix of an IPv4 address held in 16 bytes.
V4InV6Prefix == <<0, 0, 0, 0, 0, 0, 0, 0, 0, 0, 255, 255>>

\* ip.To4(): the 4-byte form, or <<>> (nil) when ip is no IPv4 address.
To4(ip) ==
  IF Len(ip) = 4 THEN ip
  ELSE IF Len(ip) = 16 /\ SubSeq(ip, 1, 12) = V4InV6Prefix THEN SubSeq(ip, 13, 16)
  ELSE <<>>

\* (*net.IPNet).Contains
IPNetContains(n, ip) ==
  LET nn == IF To4(n.IP) # <<>> THEN To4(n.IP) ELSE n.IP
      m == IF Len(n.Mask) = 16 /\ Len(nn) = 4 THEN SubSeq(n.Mask, 13, 16) ELSE n.Mask
      x == IF To4(ip) # <<>> THEN To4(ip) ELSE ip
  IN  /\ Len(x) = Len(nn)
      /\ \A i \in 1..Len(x) : BitAnd(nn[i], m[i]) = BitAnd(x[i], m[i])

matchIPConstraint(ip, constraint) == MatchResult(IPNetContains(constraint, ip), Nil)

\* strconv.Itoa on a natural number.
RECURSIVE Itoa(_)
Itoa(n) == IF n < 10 THEN <<48 + n>> ELSE Itoa(n \div 10) \o <<48 + (n % 10)>>

\* ip.String() of an IPv4 address (4 bytes, or 16 bytes with the v4 prefix).
IPString(ip) ==
  LET x == To4(ip)
  IN  Itoa(x[1]) \o <<46>> \o Itoa(x[2]) \o <<46>> \o Itoa(x[3]) \o <<46>> \o Itoa(x[4])

RECURSIVE OneBits(_)
OneBits(b) == IF b = 0 THEN 0 ELSE (b % 2) + OneBits(b \div 2)

RECURSIVE MaskSize(_)
MaskSize(m) == IF m = <<>> THEN 0 ELSE OneBits(Head(m)) + MaskSize(Tail(m))

\* n.String(): address "/" prefix length.
IPNetString(n) == IPString(n.IP) \o <<47>> \o Itoa(MaskSize(n.Mask))

(***************************************************************************)
(* checkNameConstraints.  The match argument is one of the four closures   *)
(* validateNames builds, picked here by the name type.                     *)
(***************************************************************************)
Match(nameType, parsedName, constraint) ==
  CASE nameType = "dns" -> matchDomainConstraint(parsedName, constraint)
    [] nameType = "ip" -> matchIPConstraint(parsedName, constraint)
    [] nameType = "email" -> matchEmailConstraint(parsedName, constraint)
    [] nameType = "uri" -> matchURIConstraint(parsedName, constraint)

\* The %q of a constraint: a string, or a *net.IPNet through its String().
ConstraintQ(nameType, constraint) ==
  IF nameType = "ip" THEN Quote(IPNetString(constraint)) ELSE Quote(constraint)

\* The excluded loop going on to the next entry when the matcher fails.
RECURSIVE ExcludedLoopSkipErrors(_, _, _, _, _)
ExcludedLoopSkipErrors(nameType, name, parsedName, excluded, i) ==
  IF i > Len(excluded) THEN Nil
  ELSE LET r == Match(nameType, parsedName, excluded[i])
       IN  IF r.err = Nil /\ r.match
           THEN CertificateInvalidError("%s %q is excluded by constraint %q",
                  <<nameType, Quote(name), ConstraintQ(nameType, excluded[i])>>)
           ELSE ExcludedLoopSkipErrors(nameType, name, parsedName, excluded, i + 1)

\* The loop over the excluded list, from index i: the error it returns, or
\* Nil when it runs to the end.
RECURSIVE ExcludedLoop(_, _, _, _, _)
ExcludedLoop(nameType, name, parsedName, excluded, i) ==
  IF i > Len(excluded) THEN Nil
  ELSE LET r == Match(nameType, parsedName, excluded[i])
       IN  IF r.err # Nil
           THEN CertificateInvalidError(r.err.format, r.err.fargs)
           ELSE IF r.match
           THEN CertificateInvalidError("%s %q is excluded by constraint %q",
                  <<nameType, Quote(name), ConstraintQ(nameType, excluded[i])>>)
           ELSE ExcludedLoop(nameType, name, parsedName, excluded, i + 1)

\* The permitted loop with ok starting false: an empty list permits nothing.
RECURSIVE PermittedLoopOkFalse(_, _, _, _, _, _)
PermittedLoopOkFalse(nameType, name, parsedName, permitted, i, ok) ==
  IF i > Len(permitted)
  THEN CertificateInvalidError("%s %q is not permitted by any constraint",
         <<nameType, Quote(name)>>)
  ELSE LET r == Match(nameType, parsedName, permitted[i])
       IN  IF r.err # Nil
           THEN CertificateInvalidError(r.err.format, r.err.fargs)
           ELSE IF r.match THEN Nil
           ELSE PermittedLoopOkFalse(nameType, name, parsedName, permitted, i + 1, FALSE)

\* The loop over the permitted list, from index i with the current value of
\* ok, and the test of ok after it.
RECURSIVE PermittedLoop(_, _, _, _, _, _)
PermittedLoop(nameType, name, parsedName, permitted, i, ok) ==
  IF i > Len(permitted)
  THEN IF ~ok
       THEN CertificateInvalidError("%s %q is not permitted by any constraint",
              <<nameType, Quote(name)>>)
       ELSE Nil
  ELSE LET r == Match(nameType, parsedName, permitted[i])
       IN  IF r.err # Nil
           THEN CertificateInvalidError(r.err.format, r.err.fargs)
           ELSE IF r.match THEN Nil
           ELSE PermittedLoop(nameType, name, parsedName, permitted, i + 1, FALSE)

\* checkNameConstraints with the permitted list consulted first: a permitted
\* match allows the name before the excluded list is looked at.
checkNameConstraintsPermittedFirst(nameType, name, parsedName, permitted, excluded) ==
  LET p == PermittedLoop(nameType, name, parsedName, permitted, 1, TRUE)
  IN  IF permitted # <<>> /\ p = Nil THEN Nil
      ELSE LET x == ExcludedLoop(nameType, name, parsedName, excluded, 1)
           IN  IF x # Nil THEN x ELSE p

checkNameConstraints(nameType, name, parsedName, permitted, excluded) ==
  LET x == ExcludedLoop(nameType, name, parsedName, excluded, 1)
  IN  IF x # Nil THEN x
      ELSE PermittedLoop(nameType, name, parsedName, permitted, 1, TRUE)

(***************************************************************************)
(* Inputs of checkNameConstraints: per name type, a few names and a few    *)
(* constraints (matching, not matching, malformed); the lists are every    *)
(* sequence of at most MaxListLen of the type's constraints.               *)
(***************************************************************************)
MaxListLen == 2

NameTypes == { "dns", "ip", "email", "uri" }

\* 10.0.0.1, and 192.168.0.1 in its 16-byte form.
IPInputs == { <<10, 0, 0, 1>>, V4InV6Prefix \o <<192, 168, 0, 1>> }

\* 10.0.0.0/8, 10.0.1.0/24, 192.168.0.0/16
IPNetInputs ==
  { [IP |-> <<10, 0, 0, 0>>, Mask |-> <<255, 0, 0, 0>>],
    [IP |-> <<10, 0, 1, 0>>, Mask |-> <<255, 255, 255, 0>>],
    [IP |-> <<192, 168, 0, 0>>, Mask |-> <<255, 255, 0, 0>>] }

\* The names of a type, each with its display and parsed form.
NamesOf(nameType) ==
  CASE nameType = "dns" ->
         \* a.b, b
         { [name |-> d, parsed |-> d] : d \in { <<97, 46, 98>>, <<98>> } }
    [] nameType = "ip" ->
         { [name |-> IPString(ip), parsed |-> ip] : ip \in IPInputs }
    [] nameType = "email" ->
         \* a@a.b, b@b
         { [name |-> m, parsed |-> parseRFC2821Mailbox(m).mailbox] :
             m \in { <<97, 64, 97, 46, 98>>, <<98, 64, 98>> } }
    [] nameType = "uri" ->
         \* a.b, b:1, 1.1.1.1 and the empty host
         { [name |-> URLString(URI(h)), parsed |-> URI(h)] :
             h \in { <<97, 46, 98>>, <<98, 58, 49>>, <<49, 46, 49, 46, 49, 46, 49>>, <<>> } }

ConstraintsOf(nameType) ==
  CASE nameType = "dns" ->
         \* b, a.b, .b, a..b
         { <<98>>, <<97, 46, 98>>, <<46, 98>>, <<97, 46, 46, 98>> }
    [] nameType = "ip" -> IPNetInputs
    [] nameType = "email" ->
         \* a@a.b, b, .b, @
         { <<97, 64, 97, 46, 98>>, <<98>>, <<46, 98>>, <<64>> }
    [] nameType = "uri" ->
         \* b, a.b, .b, a..b
         { <<98>>, <<97, 46, 98>>, <<46, 98>>, <<97, 46, 46, 98>> }

ListsOf(nameType) == UNION { [1..k -> ConstraintsOf(nameType)] : k \in 0..MaxListLen }

InitCheck ==
  /\ pc = "call"
  /\ \E t \in NameTypes :
       args \in { [nameType |-> t, name |-> n.name, parsedName |-> n.parsed,
                   permitted |-> p, excluded |-> x] :
                    n \in NamesOf(t), p \in ListsOf(t), x \in ListsOf(t) }
  /\ ret = Nil
  /\ e = NoEngine
  /\ sans = <<>>
  /\ visited = <<>>

CallCheckNameConstraints ==
  /\ pc = "call"
  /\ ret' = checkNameConstraints(args.nameType, args.name, args.parsedName,
                                 args.permitted, args.excluded)
  /\ pc' = "done"
  /\ UNCHANGED <<args, e, sans, visited>>

NextCheck == CallCheckNameConstraints

SpecCheck == InitCheck /\ [][NextCheck]_vars

(***************************************************************************)
(* What the matcher says of the checked name and one entry of a list.      *)
(***************************************************************************)
Matches(list, i) == Match(args.nameType, args.parsedName, list[i]).match

MatchErrs(list, i) == Match(args.nameType, args.parsedName, list[i]).err # Nil

Refused(r) == r # Nil /\ r.Reason = "CANotAuthorizedForThisName"

\* C1: when the name matches an entry of the excluded list, the check returns
\* a refusal, whatever the permitted list holds.
C1_ExcludedWins ==
  (pc = "done" /\ \E i \in 1..Len(args.excluded) : Matches(args.excluded, i))
  => Refused(ret)

\* A name matching an excluded entry and a permitted entry was refused.
C1_Witness ==
  /\ pc = "done"
  /\ \E i \in 1..Len(args.excluded) : Matches(args.excluded, i)
  /\ \E j \in 1..Len(args.permitted) : Matches(args.permitted, j)
  /\ \A i \in 1..Len(args.excluded) : ~MatchErrs(args.excluded, i)
  /\ Refused(ret)

\* C2: when the name matches no excluded entry and no matcher call fails, the
\* name is allowed exactly when the permitted list is empty or holds a
\* matching entry; otherwise the error says no constraint permits the name.
C2_PermittedRule ==
  (/\ pc = "done"
   /\ \A i \in 1..Len(args.excluded) :
         ~Matches(args.excluded, i) /\ ~MatchErrs(args.excluded, i)
   /\ \A j \in 1..Len(args.permitted) : ~MatchErrs(args.permitted, j))
  => /\ ret = Nil <=>
          \/ args.permitted = <<>>
          \/ \E j \in 1..Len(args.permitted) : Matches(args.permitted, j)
     /\ ret # Nil =>
          ret = CertificateInvalidError("%s %q is not permitted by any constraint",
                  <<args.nameType, Quote(args.name)>>)

\* A name was refused for matching none of a non-empty permitted list.
C2_Witness ==
  /\ pc = "done"
  /\ Len(args.permitted) = MaxListLen
  /\ \A j \in 1..Len(args.permitted) :
        ~Matches(args.permitted, j) /\ ~MatchErrs(args.permitted, j)
  /\ ret.format = "%s %q is not permitted by any constraint"

\* A constraint string the type's matcher cannot parse.
Malformed(nameType, c) ==
  CASE nameType = "ip" -> FALSE
    [] nameType = "email" /\ HasAt(c) -> ~parseRFC2821Mailbox(c).ok
    [] OTHER -> c # <<>> /\ ~domainToReverseLabels(LabelPart(c)).ok

\* C8 as stated: a malformed entry anywhere in either list makes the check
\* return an error.
C8_MalformedAlwaysFatal ==
  (/\ pc = "done"
   /\ \/ \E i \in 1..Len(args.excluded) : Malformed(args.nameType, args.excluded[i])
      \/ \E j \in 1..Len(args.permitted) : Malformed(args.nameType, args.permitted[j]))
  => ret # Nil

\* C8 amended: a malformed entry of the excluded list, or one of the permitted
\* list with no matching permitted entry before it, makes the check return
\* an error.
C8_MalformedFatalWhenReached ==
  (/\ pc = "done"
   /\ \/ \E i \in 1..Len(args.excluded) : Malformed(args.nameType, args.excluded[i])
      \/ \E j \in 1..Len(args.permitted) :
            /\ Malformed(args.nameType, args.permitted[j])
            /\ \A k \in 1..(j - 1) : ~Matches(args.permitted, k))
  => ret # Nil

\* A malformed permitted entry standing after an entry that does not match
\* was reached, and its parse error returned.
C8_Witness ==
  /\ pc = "done"
  /\ args.excluded = <<>>
  /\ Len(args.permitted) = 2
  /\ ~Malformed(args.nameType, args.permitted[1])
  /\ ~Matches(args.permitted, 1) /\ ~MatchErrs(args.permitted, 1)
  /\ Malformed(args.nameType, args.permitted[2])
  /\ Refused(ret)
  /\ ret.format \in { "cannot parse domain %q", "cannot parse constraint %q" }

(***************************************************************************)
(* validateNames.  e is the NamePolicyEngine, sans the four buckets of the *)
(* call; pc is the loop the call is in, args the index of the next name of *)
(* that loop, ret the error returned, visited the names handled so far.    *)
(***************************************************************************)
\* The %q of an rfc2821Mailbox value: {"local" "domain"}.
MailboxQ(mailbox) ==
  <<123>> \o Quote(mailbox.local) \o <<32>> \o Quote(mailbox.domain) \o <<125>>

\* What a loop body does with its name before checkNameConstraints: the
\* parse that can fail (dns, email), the display name and the parsed name.
Prepare(nameType, value) ==
  CASE nameType = "dns" ->
         [err |-> IF domainToReverseLabels(value).ok THEN Nil
                  ELSE Errorf("cannot parse dns %q", <<Quote(value)>>),
          name |-> value, parsedName |-> value]
    [] nameType = "ip" ->
         [err |-> Nil, name |-> IPString(value), parsedName |-> value]
    [] nameType = "email" ->
         LET p == parseRFC2821Mailbox(value)
         IN  [err |-> IF p.ok THEN Nil
                      ELSE Errorf("cannot parse rfc822Name %q", <<MailboxQ(p.mailbox)>>),
              name |-> value, parsedName |-> p.mailbox]
    [] nameType = "uri" ->
         [err |-> Nil, name |-> URLString(value), parsedName |-> value]

\* The permitted and excluded lists a loop hands to checkNameConstraints.
PermittedOf(engine, nameType) ==
  CASE nameType = "dns" -> engine.permittedDNSDomains
    [] nameType = "ip" -> engine.permittedIPRanges
    [] nameType = "email" -> engine.permittedEmailAddresses
    [] nameType = "uri" -> engine.permittedURIDomains

ExcludedOf(engine, nameType) ==
  CASE nameType = "dns" -> engine.excludedDNSDomains
    [] nameType = "ip" -> engine.excludedIPRanges
    [] nameType = "email" -> engine.excludedEmailAddresses
    [] nameType = "uri" -> engine.excludedURIDomains

\* The body of the loop of a name type, for one name: the error it returns
\* from validateNames, or Nil when the loop goes on.
LoopBody(engine, nameType, value) ==
  LET p == Prepare(nameType, value)
  IN  IF p.err # Nil THEN p.err
      ELSE checkNameConstraints(nameType, p.name, p.parsedName,
                                PermittedOf(engine, nameType),
                                ExcludedOf(engine, nameType))

\* The loops in the order DNS, email, IP, URI.
NextLoopEmailBeforeIP(loop) ==
  CASE loop = "dns" -> "email"
    [] loop = "email" -> "ip"
    [] loop = "ip" -> "uri"
    [] loop = "uri" -> "return"

\* The loop that follows a loop in validateNames.
NextLoop(loop) ==
  CASE loop = "dns" -> "ip"
    [] loop = "ip" -> "email"
    [] loop = "email" -> "uri"
    [] loop = "uri" -> "return"

Loops == { "dns", "ip", "email", "uri" }

Bucket(loop) ==
  CASE loop = "dns" -> sans.dnsNames
    [] loop = "ip" -> sans.ips
    [] loop = "email" -> sans.emailAddresses
    [] loop = "uri" -> sans.uris

\* One iteration of the current loop: the name is handled, and its error,
\* if any, is returned.
Iterate ==
  /\ pc \in Loops
  /\ args <= Len(Bucket(pc))
  /\ visited' = Append(visited, [nameType |-> pc, value |-> Bucket(pc)[args]])
  /\ LET err == LoopBody(e, pc, Bucket(pc)[args])
     IN  IF err # Nil
         THEN ret' = err /\ pc' = "done" /\ args' = args
         ELSE ret' = ret /\ pc' = pc /\ args' = args + 1
  /\ UNCHANGED <<e, sans>>

\* The current loop has run out of names: the next loop starts.
LoopExit ==
  /\ pc \in Loops
  /\ args > Len(Bucket(pc))
  /\ pc' = NextLoop(pc)
  /\ args' = 1
  /\ UNCHANGED <<ret, e, sans, visited>>

\* return nil
ReturnNil ==
  /\ pc = "return"
  /\ ret' = Nil
  /\ pc' = "done"
  /\ UNCHANGED <<args, e, sans, visited>>

(***************************************************************************)
(* Engines and requests.  An engine picks, per name type, one of a few     *)
(* pairs of lists; a request holds at most MaxNames names in all.          *)
(***************************************************************************)
MaxNames == 3

Lists(p, x) == [permitted |-> p, excluded |-> x]

\* none; permitted "b", excluded "c.b".
DNSConfigs == { Lists(<<>>, <<>>), Lists(<< <<98>> >>, << <<99, 46, 98>> >>) }

\* permitted 10.0.0.0/8.
IPConfigs == { Lists(<< [IP |-> <<10, 0, 0, 0>>, Mask |-> <<255, 0, 0, 0>>] >>, <<>>) }

\* none; permitted ".b".
EmailConfigs == { Lists(<<>>, <<>>), Lists(<< <<46, 98>> >>, <<>>) }

\* none; permitted ""; excluded "c.b".
URIConfigs ==
  { Lists(<<>>, <<>>), Lists(<< <<>> >>, <<>>), Lists(<<>>, << <<99, 46, 98>> >>) }

Engines ==
  { [permittedDNSDomains |-> d.permitted, excludedDNSDomains |-> d.excluded,
     permittedIPRanges |-> i.permitted, excludedIPRanges |-> i.excluded,
     permittedEmailAddresses |-> m.permitted, excludedEmailAddresses |-> m.excluded,
     permittedURIDomains |-> u.permitted, excludedURIDomains |-> u.excluded] :
       d \in DNSConfigs, i \in IPConfigs, m \in EmailConfigs, u \in URIConfigs }

\* a.b, c.b, a..b
DNSNameInputs == { <<97, 46, 98>>, <<99, 46, 98>>, <<97, 46, 46, 98>> }

\* a@a.b, a@b, @b
EmailAddressInputs == { <<97, 64, 97, 46, 98>>, <<97, 64, 98>>, <<64, 98>> }

\* Hosts c.b, none, 1.1.1.1 and [::%a]:1.
URIInputs ==
  { URI(h) : h \in { <<99, 46, 98>>, <<>>, <<49, 46, 49, 46, 49, 46, 49>>,
                     <<91, 58, 58, 37, 97, 93, 58, 49>> } }

Init ==
  /\ pc = "dns"
  /\ args = 1
  /\ ret = Nil
  /\ e \in Engines
  /\ \E n1 \in 0..MaxNames :
       \E n2 \in 0..(MaxNames - n1) :
         \E n3 \in 0..(MaxNames - n1 - n2) :
           \E n4 \in 0..(MaxNames - n1 - n2 - n3) :
             sans \in [dnsNames : [1..n1 -> DNSNameInputs],
                       ips : [1..n2 -> IPInputs],
                       emailAddresses : [1..n3 -> EmailAddressInputs],
                       uris : [1..n4 -> URIInputs]]
  /\ visited = <<>>

Next == Iterate \/ LoopExit \/ ReturnNil

Spec == Init /\ [][Next]_vars

(***************************************************************************)
(* The names of a request in the order DNS, IP, email, URI, and the error  *)
(* each would get on its own.                                              *)
(***************************************************************************)
Tagged(t, list) == [k \in 1..Len(list) |-> [nameType |-> t, value |-> list[k]]]

AllNames ==
  Tagged("dns", sans.dnsNames) \o Tagged("ip", sans.ips)
    \o Tagged("email", sans.emailAddresses) \o Tagged("uri", sans.uris)

NameError(n) == LoopBody(e, n.nameType, n.value)

Failing == { k \in 1..Len(AllNames) : NameError(AllNames[k]) # Nil }

FirstFailing == CHOOSE k \in Failing : \A k2 \in Failing : k <= k2

\* C3: the names handled are always a prefix of the order DNS, IP, email,
\* URI; the call returns the error of the first failing name of that order,
\* having handled no name after it, and nil exactly when no name fails.
C3_FirstFailure ==
  /\ Len(visited) <= Len(AllNames)
  /\ visited = SubSeq(AllNames, 1, Len(visited))
  /\ pc = "done" =>
       IF Failing = {}
       THEN ret = Nil /\ visited = AllNames
       ELSE /\ ret = NameError(AllNames[FirstFailing])
            /\ ret # Nil
            /\ Len(visited) = FirstFailing

\* A call with names in three buckets stopped at a failing email address
\* that has a failing and unhandled URI after it.
C3_Witness ==
  /\ pc = "done"
  /\ sans.dnsNames # <<>> /\ sans.emailAddresses # <<>> /\ sans.uris # <<>>
  /\ visited[Len(visited)].nameType = "email"
  /\ Cardinality(Failing) >= 2
  /\ ret # Nil

\* C4: when a DNS name or an email address does not parse, the error
\* returned names that input value.
C4_ParseErrorNamesInput ==
  (pc = "done" /\ ret.format \in { "cannot parse dns %q", "cannot parse rfc822Name %q" })
  => ret.fargs = << Quote(visited[Len(visited)].value) >>

URIConstrained == e.permittedURIDomains # <<>> \/ e.excludedURIDomains # <<>>

\* C10: a URI that is reached and whose host is empty or an IP literal is
\* refused exactly when a URI constraint is configured; with both URI lists
\* empty no URI is refused.
C10_URICheckedOnlyWhenConstrained ==
  \A k \in 1..Len(visited) :
     visited[k].nameType = "uri" =>
       LET refused == k = Len(visited) /\ pc = "done" /\ ret # Nil
           host == visited[k].value.Host
       IN  /\ ~URIConstrained => ~refused
           /\ (host = <<>> \/ HostIsIPLiteral(host)) => (refused <=> URIConstrained)

====
